---- MODULE Spec2Model ----
(***************************************************************************)
(* The Konami Code detector of assets/js/main.js (class KonamiCode): the   *)
(* keyboard handler, the gamepad poller with its connection handlers, the  *)
(* playback gate with its 10 second session timer.                         *)
(*                                                                         *)
(* JavaScript values are modelled as strings: "undefined", "null", "true", *)
(* "false"; an object that exists is named by its type ("Audio",           *)
(* "interval").  Arrays are 1-based sequences read through At (0-based).   *)
(***************************************************************************)
EXTENDS Integers, Sequences, FiniteSets, TLC

(***************************************************************************)
(* Bounds of the model.                                                    *)
(***************************************************************************)
\* buttons one poll sample may report pressed at once
MaxPressed == 1
\* gamepad events the browser may hold undelivered
MaxQueue == 1

(***************************************************************************)
(* constructor: the three spellings of the pattern.                        *)
(***************************************************************************)
sequence ==
    << "ArrowUp", "ArrowUp", "ArrowDown", "ArrowDown",
       "ArrowLeft", "ArrowRight", "ArrowLeft", "ArrowRight",
       "KeyB", "KeyA" >>

wasdSequence ==
    << "KeyW", "KeyW", "KeyS", "KeyS",
       "KeyA", "KeyD", "KeyA", "KeyD",
       "KeyB", "KeyA" >>

controllerSequence ==
    << "up", "up", "down", "down",
       "left", "right", "left", "right",
       "b", "a" >>

\* a[i] of a JavaScript array: 0-based, undefined past the end
At(a, i) == IF i + 1 \in DOMAIN a THEN a[i + 1] ELSE "undefined"

(***************************************************************************)
(* The environment's alphabets.                                            *)
(***************************************************************************)
\* event.code of a keydown: the codes of both layouts and one code of neither
KeyCodes ==
    { "ArrowUp", "ArrowDown", "ArrowLeft", "ArrowRight", "KeyB", "KeyA",
      "KeyW", "KeyS", "KeyD", "Space" }

\* the codes of the arrow layout, and the code of neither layout
ArrowKeyCodes ==
    { "ArrowUp", "ArrowDown", "ArrowLeft", "ArrowRight", "KeyB", "KeyA", "Space" }

\* the identifiers pollGamepad passes to checkButtonPress, in call order
ButtonOrder == << "up", "down", "left", "right", "a", "b" >>

Buttons == { ButtonOrder[i] : i \in DOMAIN ButtonOrder }

\* gamepad.buttons[n] read for each identifier
ButtonIndex ==
    [ b \in Buttons |->
        CASE b = "up" -> 12
          [] b = "down" -> 13
          [] b = "left" -> 14
          [] b = "right" -> 15
          [] b = "a" -> 0
          [] b = "b" -> 1 ]

\* indices of navigator.getGamepads()
Pads == { 0, 1 }

\* gamepad.buttons.length: pad 0 has the standard mapping, pad 1 has no
\* buttons 12..15, so that buttons[12]?.pressed is undefined on it
ButtonsLength == [ p \in Pads |-> IF p = 0 THEN 17 ELSE 12 ]

\* what audio.play() does: its promise resolves, its promise rejects, or the
\* try block throws before the flag is set
PlayOutcomes == { "resolves", "rejects", "throws" }

VARIABLES
    \* fields of the KonamiCode object
    currentSequence,
    audio,
    hasPlayedThisSession,
    gamepadIndex,
    previousButtonStates,
    gamepadPolling,
    \* the browser
    timeouts,       \* pending callbacks of the setTimeout of playKonamiAudio
    intervals,      \* running timers of the setInterval of startGamepadPolling
    gamepads,       \* the indices at which navigator.getGamepads() is non-null
    eventQueue,     \* gamepadconnected / gamepaddisconnected events not yet dispatched
    \* observers
    consumed,       \* what the last handler run did with each press it handled
    fed,            \* the pattern symbols fed in order since an empty, unsuppressed state
    lastSampled,    \* the button levels of the last poll sample
    polled,         \* the last step was a poll tick that sampled the pad
    window,         \* the suppression window as the other channel lives it
    recent,         \* which runs of most recent handled presses spell a start of the pattern
    \* the page
    page,           \* what the script's last statements left behind, and the detectors built
    others          \* the detectors built after the first, each as the value This

object == << currentSequence, audio, hasPlayedThisSession, gamepadIndex,
             previousButtonStates, gamepadPolling >>
browser == << timeouts, intervals, gamepads, eventQueue >>
observers == << consumed, fed, lastSampled, polled >>
loader == << page, others >>
\* what only the specifications made for it change
extras == << window, recent, loader >>
vars == << object, browser, observers, extras >>

(***************************************************************************)
(* The object and the browser timers it owns, as one value that the        *)
(* methods take and return.  calls counts the invocations of               *)
(* playKonamiAudio in the handler run, play is what the last one did.      *)
(***************************************************************************)
This ==
    [ currentSequence |-> currentSequence,
      audio |-> audio,
      hasPlayedThisSession |-> hasPlayedThisSession,
      gamepadIndex |-> gamepadIndex,
      previousButtonStates |-> previousButtonStates,
      gamepadPolling |-> gamepadPolling,
      timeouts |-> timeouts,
      intervals |-> intervals,
      calls |-> 0,
      play |-> "none",
      consumed |-> << >> ]

Commit(this) ==
    /\ currentSequence' = this.currentSequence
    /\ audio' = this.audio
    /\ hasPlayedThisSession' = this.hasPlayedThisSession
    /\ gamepadIndex' = this.gamepadIndex
    /\ previousButtonStates' = this.previousButtonStates
    /\ gamepadPolling' = this.gamepadPolling
    /\ timeouts' = this.timeouts
    /\ intervals' = this.intervals
    /\ consumed' = this.consumed

(***************************************************************************)
(* resetSequence                                                           *)
(***************************************************************************)
resetSequence(this) == [ this EXCEPT !.currentSequence = << >> ]

(***************************************************************************)
(* playKonamiAudio.  The flag is set and the timer started inside          *)
(* if (this.audio), after play() has returned: neither happens without an  *)
(* audio object, nor when the try block throws.  A rejected promise is     *)
(* only logged.                                                            *)
(***************************************************************************)
\* faulty variant: the timer is started but the flag is never set
playKonamiAudio_NoFlag(this, outcome) ==
    LET called == [ this EXCEPT !.calls = @ + 1 ]
    IN  IF called.hasPlayedThisSession
        THEN [ called EXCEPT !.play = "suppressed" ]
        ELSE IF called.audio = "null"
        THEN [ called EXCEPT !.play = "noaudio" ]
        ELSE IF outcome = "throws"
        THEN [ called EXCEPT !.play = "throws" ]
        ELSE [ called EXCEPT !.play = outcome,
                             !.timeouts = @ + 1 ]

\* faulty variant: the flag is set and the timer started before the try block, whatever
\* becomes of the playback
playKonamiAudio_FlagFirst(this, outcome) ==
    LET called == [ this EXCEPT !.calls = @ + 1 ]
    IN  IF called.hasPlayedThisSession
        THEN [ called EXCEPT !.play = "suppressed" ]
        ELSE [ called EXCEPT !.play = IF called.audio = "null" THEN "noaudio" ELSE outcome,
                             !.hasPlayedThisSession = TRUE,
                             !.timeouts = @ + 1 ]

\* faulty variant: the flag is set and no timer is started to clear it
playKonamiAudio_NoTimer(this, outcome) ==
    LET called == [ this EXCEPT !.calls = @ + 1 ]
    IN  IF called.hasPlayedThisSession
        THEN [ called EXCEPT !.play = "suppressed" ]
        ELSE IF called.audio = "null"
        THEN [ called EXCEPT !.play = "noaudio" ]
        ELSE IF outcome = "throws"
        THEN [ called EXCEPT !.play = "throws" ]
        ELSE [ called EXCEPT !.play = outcome,
                             !.hasPlayedThisSession = TRUE ]

playKonamiAudio(this, outcome) ==
    LET called == [ this EXCEPT !.calls = @ + 1 ]
    IN  IF called.hasPlayedThisSession
        THEN [ called EXCEPT !.play = "suppressed" ]
        ELSE IF called.audio = "null"
        THEN [ called EXCEPT !.play = "noaudio" ]
        ELSE IF outcome = "throws"
        THEN [ called EXCEPT !.play = "throws" ]
        ELSE [ called EXCEPT !.play = outcome,
                             !.hasPlayedThisSession = TRUE,
                             !.timeouts = @ + 1 ]

(***************************************************************************)
(* handleKeyboardInput                                                     *)
(***************************************************************************)
\* faulty variant: the pattern counts as complete one key early
handleKeyboardInput_OffByOne(this, keyCode, outcome) ==
    IF this.hasPlayedThisSession
    THEN this
    ELSE
        LET expectedKeyArrow == At(sequence, Len(this.currentSequence))
            expectedKeyWASD == At(wasdSequence, Len(this.currentSequence))
        IN  IF keyCode = expectedKeyArrow \/ keyCode = expectedKeyWASD
            THEN
                LET pushed == [ this EXCEPT !.currentSequence = Append(@, keyCode) ]
                IN  IF Len(pushed.currentSequence) = Len(sequence) - 1
                    THEN resetSequence(playKonamiAudio(pushed, outcome))
                    ELSE pushed
            ELSE
                LET reset == resetSequence(this)
                IN  IF keyCode = At(sequence, 0) \/ keyCode = At(wasdSequence, 0)
                    THEN [ reset EXCEPT !.currentSequence = Append(@, keyCode) ]
                    ELSE reset

\* faulty variant: the match state is not emptied after a complete pattern
handleKeyboardInput_NoReset(this, keyCode, outcome) ==
    IF this.hasPlayedThisSession
    THEN this
    ELSE
        LET expectedKeyArrow == At(sequence, Len(this.currentSequence))
            expectedKeyWASD == At(wasdSequence, Len(this.currentSequence))
        IN  IF keyCode = expectedKeyArrow \/ keyCode = expectedKeyWASD
            THEN
                LET pushed == [ this EXCEPT !.currentSequence = Append(@, keyCode) ]
                IN  IF Len(pushed.currentSequence) = Len(sequence)
                    THEN playKonamiAudio(pushed, outcome)
                    ELSE pushed
            ELSE
                LET reset == resetSequence(this)
                IN  IF keyCode = At(sequence, 0) \/ keyCode = At(wasdSequence, 0)
                    THEN [ reset EXCEPT !.currentSequence = Append(@, keyCode) ]
                    ELSE reset

\* faulty variant: a wrong key empties the match state and is not looked at again
handleKeyboardInput_NoRestart(this, keyCode, outcome) ==
    IF this.hasPlayedThisSession
    THEN this
    ELSE
        LET expectedKeyArrow == At(sequence, Len(this.currentSequence))
            expectedKeyWASD == At(wasdSequence, Len(this.currentSequence))
        IN  IF keyCode = expectedKeyArrow \/ keyCode = expectedKeyWASD
            THEN
                LET pushed == [ this EXCEPT !.currentSequence = Append(@, keyCode) ]
                IN  IF Len(pushed.currentSequence) = Len(sequence)
                    THEN resetSequence(playKonamiAudio(pushed, outcome))
                    ELSE pushed
            ELSE resetSequence(this)

\* faulty variant: only the arrow layout's key is accepted as the expected key
handleKeyboardInput_ArrowOnly(this, keyCode, outcome) ==
    IF this.hasPlayedThisSession
    THEN this
    ELSE
        LET expectedKeyArrow == At(sequence, Len(this.currentSequence))
        IN  IF keyCode = expectedKeyArrow
            THEN
                LET pushed == [ this EXCEPT !.currentSequence = Append(@, keyCode) ]
                IN  IF Len(pushed.currentSequence) = Len(sequence)
                    THEN resetSequence(playKonamiAudio(pushed, outcome))
                    ELSE pushed
            ELSE
                LET reset == resetSequence(this)
                IN  IF keyCode = At(sequence, 0) \/ keyCode = At(wasdSequence, 0)
                    THEN [ reset EXCEPT !.currentSequence = Append(@, keyCode) ]
                    ELSE reset

\* faulty variant: the handler does not look at the flag
handleKeyboardInput_NoGuard(this, keyCode, outcome) ==
    LET expectedKeyArrow == At(sequence, Len(this.currentSequence))
        expectedKeyWASD == At(wasdSequence, Len(this.currentSequence))
    IN  IF keyCode = expectedKeyArrow \/ keyCode = expectedKeyWASD
        THEN
            LET pushed == [ this EXCEPT !.currentSequence = Append(@, keyCode) ]
            IN  IF Len(pushed.currentSequence) = Len(sequence)
                THEN resetSequence(playKonamiAudio(pushed, outcome))
                ELSE pushed
        ELSE
            LET reset == resetSequence(this)
            IN  IF keyCode = At(sequence, 0) \/ keyCode = At(wasdSequence, 0)
                THEN [ reset EXCEPT !.currentSequence = Append(@, keyCode) ]
                ELSE reset

handleKeyboardInput(this, keyCode, outcome) ==
    IF this.hasPlayedThisSession
    THEN this
    ELSE
        LET expectedKeyArrow == At(sequence, Len(this.currentSequence))
            expectedKeyWASD == At(wasdSequence, Len(this.currentSequence))
        IN  IF keyCode = expectedKeyArrow \/ keyCode = expectedKeyWASD
            THEN
                LET pushed == [ this EXCEPT !.currentSequence = Append(@, keyCode) ]
                IN  IF Len(pushed.currentSequence) = Len(sequence)
                    THEN resetSequence(playKonamiAudio(pushed, outcome))
                    ELSE pushed
            ELSE
                LET reset == resetSequence(this)
                IN  IF keyCode = At(sequence, 0) \/ keyCode = At(wasdSequence, 0)
                    THEN [ reset EXCEPT !.currentSequence = Append(@, keyCode) ]
                    ELSE reset

(***************************************************************************)
(* handleControllerInput                                                   *)
(***************************************************************************)
\* the presses of the pad among the accepted ones
ControllerTokens(seq) == SelectSeq(seq, LAMBDA t : t \in { "up", "down", "left", "right", "a", "b" })

\* faulty variant: the expected input is found by counting the pad's own presses only
handleControllerInput_OwnCount(this, input, outcome) ==
    IF this.hasPlayedThisSession
    THEN this
    ELSE
        LET expectedInput == At(controllerSequence, Len(ControllerTokens(this.currentSequence)))
        IN  IF input = expectedInput
            THEN
                LET pushed == [ this EXCEPT !.currentSequence = Append(@, input) ]
                IN  IF Len(ControllerTokens(pushed.currentSequence)) = Len(controllerSequence)
                    THEN resetSequence(playKonamiAudio(pushed, outcome))
                    ELSE pushed
            ELSE
                LET reset == resetSequence(this)
                IN  IF input = At(controllerSequence, 0)
                    THEN [ reset EXCEPT !.currentSequence = Append(@, input) ]
                    ELSE reset

\* faulty variant: after a wrong input the match state restarts with that input,
\* whatever it is
handleControllerInput_PushAnyway(this, input, outcome) ==
    IF this.hasPlayedThisSession
    THEN this
    ELSE
        LET expectedInput == At(controllerSequence, Len(this.currentSequence))
        IN  IF input = expectedInput
            THEN
                LET pushed == [ this EXCEPT !.currentSequence = Append(@, input) ]
                IN  IF Len(pushed.currentSequence) = Len(controllerSequence)
                    THEN resetSequence(playKonamiAudio(pushed, outcome))
                    ELSE pushed
            ELSE
                LET reset == resetSequence(this)
                IN  [ reset EXCEPT !.currentSequence = Append(@, input) ]

\* faulty variant: the pad has a flag of its own, which a match on the keyboard
\* does not set
handleControllerInput_OwnFlag(this, input, outcome) ==
    LET expectedInput == At(controllerSequence, Len(this.currentSequence))
    IN  IF input = expectedInput
        THEN
            LET pushed == [ this EXCEPT !.currentSequence = Append(@, input) ]
            IN  IF Len(pushed.currentSequence) = Len(controllerSequence)
                THEN resetSequence(
                        [ playKonamiAudio([ pushed EXCEPT !.hasPlayedThisSession = FALSE ], outcome)
                            EXCEPT !.hasPlayedThisSession = this.hasPlayedThisSession,
                                   !.timeouts = this.timeouts ])
                ELSE pushed
        ELSE
            LET reset == resetSequence(this)
            IN  IF input = At(controllerSequence, 0)
                THEN [ reset EXCEPT !.currentSequence = Append(@, input) ]
                ELSE reset

\* faulty variant: the handler does not return early when the flag is set
handleControllerInput_NoGuard(this, input, outcome) ==
    LET expectedInput == At(controllerSequence, Len(this.currentSequence))
    IN  IF input = expectedInput
        THEN
            LET pushed == [ this EXCEPT !.currentSequence = Append(@, input) ]
            IN  IF Len(pushed.currentSequence) = Len(controllerSequence)
                THEN resetSequence(playKonamiAudio(pushed, outcome))
                ELSE pushed
        ELSE
            LET reset == resetSequence(this)
            IN  IF input = At(controllerSequence, 0)
                THEN [ reset EXCEPT !.currentSequence = Append(@, input) ]
                ELSE reset

\* faulty variant: a wrong input is skipped and the match state kept
handleControllerInput_SkipsWrongInput(this, input, outcome) ==
    IF this.hasPlayedThisSession
    THEN this
    ELSE
        LET expectedInput == At(controllerSequence, Len(this.currentSequence))
        IN  IF input = expectedInput
            THEN
                LET pushed == [ this EXCEPT !.currentSequence = Append(@, input) ]
                IN  IF Len(pushed.currentSequence) = Len(controllerSequence)
                    THEN resetSequence(playKonamiAudio(pushed, outcome))
                    ELSE pushed
            ELSE this

handleControllerInput(this, input, outcome) ==
    IF this.hasPlayedThisSession
    THEN this
    ELSE
        LET expectedInput == At(controllerSequence, Len(this.currentSequence))
        IN  IF input = expectedInput
            THEN
                LET pushed == [ this EXCEPT !.currentSequence = Append(@, input) ]
                IN  IF Len(pushed.currentSequence) = Len(controllerSequence)
                    THEN resetSequence(playKonamiAudio(pushed, outcome))
                    ELSE pushed
            ELSE
                LET reset == resetSequence(this)
                IN  IF input = At(controllerSequence, 0)
                    THEN [ reset EXCEPT !.currentSequence = Append(@, input) ]
                    ELSE reset

(***************************************************************************)
(* The observer's vocabulary: the target pattern in logical symbols and    *)
(* the logical symbols a raw code can stand for on its channel.            *)
(***************************************************************************)
TargetPattern ==
    << "UP", "UP", "DOWN", "DOWN", "LEFT", "RIGHT", "LEFT", "RIGHT", "B", "A" >>

Logical(channel, input) ==
    IF channel = "keyboard"
    THEN CASE input \in { "ArrowUp", "KeyW" } -> { "UP" }
           [] input \in { "ArrowDown", "KeyS" } -> { "DOWN" }
           [] input = "ArrowLeft" -> { "LEFT" }
           [] input \in { "ArrowRight", "KeyD" } -> { "RIGHT" }
           [] input = "KeyB" -> { "B" }
           [] input = "KeyA" -> { "LEFT", "A" }
           [] OTHER -> { }
    ELSE CASE input = "up" -> { "UP" }
           [] input = "down" -> { "DOWN" }
           [] input = "left" -> { "LEFT" }
           [] input = "right" -> { "RIGHT" }
           [] input = "b" -> { "B" }
           [] input = "a" -> { "A" }
           [] OTHER -> { }

\* input is a code of the pattern's symbol at position i (0-based)
Hit(channel, input, i) ==
    /\ i + 1 \in DOMAIN TargetPattern
    /\ TargetPattern[i + 1] \in Logical(channel, input)

(***************************************************************************)
(* The two places a press enters a handler: the keydown listener of        *)
(* setupKeyboardListener and the call in checkButtonPress.  The observer   *)
(* records what the handler did with the press.                            *)
(***************************************************************************)
consume(this, channel, input, outcome) ==
    LET fresh == [ this EXCEPT !.play = "none" ]
        next == IF channel = "keyboard"
                THEN handleKeyboardInput(fresh, input, outcome)
                ELSE handleControllerInput(fresh, input, outcome)
    IN  [ next EXCEPT !.consumed =
            Append(@, [ channel |-> channel,
                        input |-> input,
                        before |-> Len(this.currentSequence),
                        suppressed |-> this.hasPlayedThisSession,
                        after |-> Len(next.currentSequence),
                        match |-> next.calls - this.calls,
                        play |-> next.play,
                        armed |-> next.timeouts > 0 ]) ]

(***************************************************************************)
(* checkButtonPress                                                        *)
(***************************************************************************)
\* obj[key] = value
Put(obj, key, value) ==
    [ k \in DOMAIN obj \cup { key } |-> IF k = key THEN value ELSE obj[k] ]

\* obj[key] || false
GetOrFalse(obj, key) ==
    IF key \in DOMAIN obj /\ obj[key] = "true" THEN "true" ELSE "false"

\* faulty variant: the level is stored only when a press was reported
checkButtonPress_StoreOnPress(this, button, isPressed, outcome) ==
    LET wasPressed == GetOrFalse(this.previousButtonStates, button)
    IN  IF isPressed = "true" /\ wasPressed # "true"
        THEN [ consume(this, "controller", button, outcome)
                 EXCEPT !.previousButtonStates = Put(@, button, isPressed) ]
        ELSE this

checkButtonPress(this, button, isPressed, outcome) ==
    LET wasPressed == GetOrFalse(this.previousButtonStates, button)
        handled == IF isPressed = "true" /\ wasPressed # "true"
                   THEN consume(this, "controller", button, outcome)
                   ELSE this
    IN  [ handled EXCEPT !.previousButtonStates = Put(@, button, isPressed) ]

(***************************************************************************)
(* startGamepadPolling, and the browser's clearInterval                    *)
(***************************************************************************)
\* faulty variant: a timer is started whether or not one is running
startGamepadPolling_Always(this) ==
    [ this EXCEPT !.gamepadPolling = "interval", !.intervals = @ + 1 ]

startGamepadPolling(this) ==
    IF this.gamepadPolling = "interval"
    THEN this
    ELSE [ this EXCEPT !.gamepadPolling = "interval", !.intervals = @ + 1 ]

clearInterval(this, handle) ==
    IF handle = "interval" /\ this.intervals > 0
    THEN [ this EXCEPT !.intervals = @ - 1 ]
    ELSE this

(***************************************************************************)
(* pollGamepad.  gamepad is navigator.getGamepads()[this.gamepadIndex]:    *)
(* null, or the levels buttons[n]?.pressed of the six buttons read.        *)
(***************************************************************************)
pollGamepad(this, gamepad, outcome) ==
    IF this.gamepadIndex = -1
    THEN this
    ELSE IF gamepad.null
    THEN [ clearInterval([ this EXCEPT !.gamepadIndex = -1 ], this.gamepadPolling)
             EXCEPT !.gamepadPolling = "null" ]
    ELSE
        LET dpadUp == gamepad.pressed["up"]
            dpadDown == gamepad.pressed["down"]
            dpadLeft == gamepad.pressed["left"]
            dpadRight == gamepad.pressed["right"]
            aButton == gamepad.pressed["a"]
            bButton == gamepad.pressed["b"]
            s1 == checkButtonPress(this, "up", dpadUp, outcome)
            s2 == checkButtonPress(s1, "down", dpadDown, outcome)
            s3 == checkButtonPress(s2, "left", dpadLeft, outcome)
            s4 == checkButtonPress(s3, "right", dpadRight, outcome)
            s5 == checkButtonPress(s4, "a", aButton, outcome)
        IN  checkButtonPress(s5, "b", bButton, outcome)

(***************************************************************************)
(* setupGamepadListener: the two listeners, and checkExistingGamepads      *)
(***************************************************************************)
gamepadconnected(this, index) ==
    startGamepadPolling([ this EXCEPT !.gamepadIndex = index ])

gamepaddisconnected(this, index) ==
    IF this.gamepadIndex = index
    THEN [ this EXCEPT !.gamepadIndex = -1 ]
    ELSE this

\* the first non-null entry of navigator.getGamepads()
FirstPad(pads) == CHOOSE p \in pads : \A q \in pads : p <= q

checkExistingGamepads(this, pads) ==
    IF pads = { }
    THEN this
    ELSE startGamepadPolling([ this EXCEPT !.gamepadIndex = FirstPad(pads) ])

(***************************************************************************)
(* preloadAudio, init and the constructor                                  *)
(***************************************************************************)
\* created: new Audio() did not throw
preloadAudio(this, created) ==
    IF created THEN [ this EXCEPT !.audio = "Audio" ] ELSE this

init(this, created, pads) ==
    checkExistingGamepads(preloadAudio(this, created), pads)

NoLevels == [ b \in { } |-> "undefined" ]

constructor(created, pads) ==
    init([ currentSequence |-> << >>,
           audio |-> "null",
           hasPlayedThisSession |-> FALSE,
           gamepadIndex |-> -1,
           previousButtonStates |-> NoLevels,
           gamepadPolling |-> "undefined",
           timeouts |-> 0,
           intervals |-> 0,
           calls |-> 0,
           play |-> "none",
           consumed |-> << >> ],
         created, pads)

(***************************************************************************)
(* The observer fed: how many pattern symbols, in pattern order (the       *)
(* pattern repeated), one channel has been fed since a state with an empty *)
(* match state and the flag clear, nothing else consumed in between; the   *)
(* MATCH events (calls of playKonamiAudio) and playback requests seen on   *)
(* the way; whether a session timer was pending once the 10th symbol was   *)
(* handled (armed); fed.len when the session timer fired (cooledAt);       *)
(* whether a key of the first pass was not the arrow layout's (wasd), and  *)
(* whether one was the arrow layout's where the layouts differ (arrow).    *)
(***************************************************************************)
FedNone ==
    [ channel |-> "none", len |-> 0, matches |-> 0, requests |-> 0,
      armed |-> FALSE, cooledAt |-> -1, wasd |-> FALSE, arrow |-> FALSE ]

Requested(e) == IF e.play \in PlayOutcomes THEN 1 ELSE 0

FedStep(f, e) ==
    IF f.len \in 1..19 /\ e.channel = f.channel /\ Hit(e.channel, e.input, f.len % 10)
    THEN [ f EXCEPT !.len = @ + 1,
                    !.matches = @ + e.match,
                    !.requests = @ + Requested(e),
                    !.armed = IF f.len = 9 THEN e.armed ELSE @,
                    !.wasd = @ \/ (f.len < 10 /\ e.channel = "keyboard"
                                        /\ e.input # At(sequence, f.len)),
                    !.arrow = @ \/ (f.len < 10 /\ e.channel = "keyboard"
                                         /\ e.input # At(wasdSequence, f.len)) ]
    ELSE IF e.before = 0 /\ ~e.suppressed /\ Hit(e.channel, e.input, 0)
    THEN [ FedNone EXCEPT !.channel = e.channel,
                          !.len = 1,
                          !.matches = e.match,
                          !.requests = Requested(e),
                          !.wasd = (e.channel = "keyboard" /\ e.input # At(sequence, 0)),
                          !.arrow = (e.channel = "keyboard" /\ e.input # At(wasdSequence, 0)) ]
    ELSE FedNone

RECURSIVE FedFold(_, _, _)
FedFold(f, log, i) ==
    IF i > Len(log) THEN f ELSE FedFold(FedStep(f, log[i]), log, i + 1)

FedCooled(f) ==
    IF f.len >= 10 /\ f.cooledAt = -1 THEN [ f EXCEPT !.cooledAt = f.len ] ELSE f

(***************************************************************************)
(* The observer window: the channel whose match set the flag (by), how     *)
(* many pattern symbols, in pattern order, the other channel has been fed  *)
(* since (other), and the playback requests made since (requests).  The    *)
(* observer starts afresh when the flag is set and ends when it is         *)
(* cleared.                                                                *)
(***************************************************************************)
WindowNone == [ by |-> "none", other |-> 0, requests |-> 0 ]

WindowStep(w, e) ==
    IF w.by = "none"
    THEN IF e.play \in { "resolves", "rejects" }
         THEN [ by |-> e.channel, other |-> 0, requests |-> 0 ]
         ELSE w
    ELSE [ w EXCEPT !.requests = @ + Requested(e),
                    !.other = IF e.channel = w.by THEN 0
                              ELSE IF Hit(e.channel, e.input, w.other) THEN w.other + 1
                              ELSE IF Hit(e.channel, e.input, 0) THEN 1
                              ELSE 0 ]

RECURSIVE WindowFold(_, _, _)
WindowFold(w, log, i) ==
    IF i > Len(log) THEN w ELSE WindowFold(WindowStep(w, log[i]), log, i + 1)

(***************************************************************************)
(* The observer recent, kept without reference to the match state: lengths *)
(* is the set of all k such that the k most recent presses a handler did   *)
(* not ignore were, in order, codes of the pattern's first k symbols;      *)
(* trail is its value after each press of the last step, entry by entry of *)
(* consumed.                                                               *)
(***************************************************************************)
RecentNone == [ lengths |-> { }, trail |-> << >> ]

RecentStep(lengths, e) ==
    IF e.suppressed
    THEN lengths
    ELSE { k + 1 : k \in { j \in lengths \cup { 0 } :
                             j < Len(TargetPattern) /\ Hit(e.channel, e.input, j) } }

RECURSIVE RecentFold(_, _, _, _)
RecentFold(lengths, trail, log, i) ==
    IF i > Len(log)
    THEN [ lengths |-> lengths, trail |-> trail ]
    ELSE RecentFold(RecentStep(lengths, log[i]),
                    Append(trail, RecentStep(lengths, log[i])), log, i + 1)

(***************************************************************************)
(* What a poll sample of a pad can read.                                   *)
(***************************************************************************)
Levels(pad, pressed) ==
    [ b \in Buttons |->
        IF ButtonIndex[b] >= ButtonsLength[pad] THEN "undefined"
        ELSE IF b \in pressed THEN "true" ELSE "false" ]

Snapshots ==
    [ pad \in Pads |->
        { Levels(pad, pressed) :
            pressed \in { q \in SUBSET { b \in Buttons : ButtonIndex[b] < ButtonsLength[pad] } :
                            Cardinality(q) <= MaxPressed } } ]

NeverSampled == [ b \in Buttons |-> "undefined" ]

\* navigator.getGamepads()[index]
GamepadsAt(index) ==
    IF index \in gamepads
    THEN { [ null |-> FALSE, pressed |-> s ] : s \in Snapshots[index] }
    ELSE { [ null |-> TRUE, pressed |-> NeverSampled ] }

(***************************************************************************)
(* The actions: one per callback the object registers, and the             *)
(* environment's plugging and unplugging of pads.                          *)
(***************************************************************************)
\* play() is reached only by the press that completes the pattern: the outcome
\* is drawn in the states one symbol short of it, and is of no effect elsewhere
OutcomesNow ==
    IF Len(currentSequence) + 1 >= Len(sequence) /\ ~hasPlayedThisSession /\ audio # "null"
    THEN PlayOutcomes
    ELSE { "resolves" }

\* the keydown listener
keydown(keyCode) ==
    \E outcome \in OutcomesNow :
        LET this == consume(This, "keyboard", keyCode, outcome)
        IN  /\ Commit(this)
            /\ fed' = FedFold(fed, this.consumed, 1)
            /\ polled' = FALSE
            /\ UNCHANGED << gamepads, eventQueue, lastSampled >>

\* faulty variant: the callback leaves the flag as it is
sessionTimeout_KeepsFlag ==
    /\ timeouts > 0
    /\ timeouts' = timeouts - 1
    /\ consumed' = << >>
    /\ fed' = FedCooled(fed)
    /\ polled' = FALSE
    /\ UNCHANGED << currentSequence, audio, hasPlayedThisSession, gamepadIndex,
                    previousButtonStates, gamepadPolling, intervals, gamepads,
                    eventQueue, lastSampled >>

\* the setTimeout callback of playKonamiAudio
sessionTimeout ==
    /\ timeouts > 0
    /\ timeouts' = timeouts - 1
    /\ hasPlayedThisSession' = FALSE
    /\ consumed' = << >>
    /\ fed' = FedCooled(fed)
    /\ polled' = FALSE
    /\ UNCHANGED << currentSequence, audio, gamepadIndex, previousButtonStates,
                    gamepadPolling, intervals, gamepads, eventQueue, lastSampled >>

\* the setInterval callback of startGamepadPolling
intervalTick ==
    /\ intervals > 0
    /\ \E outcome \in OutcomesNow, gamepad \in GamepadsAt(gamepadIndex) :
        LET this == pollGamepad(This, gamepad, outcome)
        IN  /\ Commit(this)
            /\ fed' = FedFold(fed, this.consumed, 1)
            /\ lastSampled' = IF gamepadIndex # -1 /\ ~gamepad.null
                              THEN gamepad.pressed
                              ELSE lastSampled
            /\ polled' = (gamepadIndex # -1 /\ ~gamepad.null)
            /\ UNCHANGED << gamepads, eventQueue >>

\* a pad appears in navigator.getGamepads(); its event is queued
plug(pad) ==
    /\ pad \notin gamepads
    /\ Len(eventQueue) < MaxQueue
    /\ gamepads' = gamepads \cup { pad }
    /\ eventQueue' = Append(eventQueue, [ type |-> "gamepadconnected", index |-> pad ])
    /\ consumed' = << >>
    /\ polled' = FALSE
    /\ UNCHANGED << object, timeouts, intervals, fed, lastSampled >>

\* a pad disappears from navigator.getGamepads(); its event is queued
unplug(pad) ==
    /\ pad \in gamepads
    /\ Len(eventQueue) < MaxQueue
    /\ gamepads' = gamepads \ { pad }
    /\ eventQueue' = Append(eventQueue, [ type |-> "gamepaddisconnected", index |-> pad ])
    /\ consumed' = << >>
    /\ polled' = FALSE
    /\ UNCHANGED << object, timeouts, intervals, fed, lastSampled >>

\* the browser dispatches the oldest queued event to its listener
dispatch ==
    /\ eventQueue # << >>
    /\ LET event == Head(eventQueue)
           this == IF event.type = "gamepadconnected"
                   THEN gamepadconnected(This, event.index)
                   ELSE gamepaddisconnected(This, event.index)
       IN  Commit(this)
    /\ eventQueue' = Tail(eventQueue)
    /\ polled' = FALSE
    /\ UNCHANGED << gamepads, fed, lastSampled >>

(***************************************************************************)
(* The last statements of the script: a DOMContentLoaded listener that     *)
(* builds a detector, registered whatever the document's state, and, when  *)
(* document.readyState is not 'loading', a setTimeout of 100 ms that       *)
(* builds one too.  fired: DOMContentLoaded has been dispatched; timer:    *)
(* the setTimeout is pending; built: the detectors constructed so far.     *)
(***************************************************************************)
ReadyStates == { "loading", "interactive", "complete" }

bootstrap(readyState, fired) ==
    [ readyState |-> readyState,
      fired |-> fired,
      timer |-> readyState # "loading",
      built |-> 0 ]

\* new KonamiCode() run by a callback of the script: the first detector is
\* held in the variables of the object, a later one in others
newKonamiCode ==
    LET this == constructor(TRUE, gamepads)
    IN  IF page.built = 0
        THEN Commit(this) /\ others' = others
        ELSE /\ others' = Append(others, this)
             /\ consumed' = << >>
             /\ UNCHANGED << object, timeouts, intervals >>

\* the DOMContentLoaded listener
DOMContentLoaded ==
    /\ ~page.fired
    /\ page' = [ page EXCEPT !.fired = TRUE, !.built = @ + 1 ]
    /\ newKonamiCode
    /\ polled' = FALSE
    /\ UNCHANGED << gamepads, eventQueue, fed, lastSampled, window, recent >>

\* the callback of the script's setTimeout
bootTimeout ==
    /\ page.timer
    /\ page' = [ page EXCEPT !.timer = FALSE, !.built = @ + 1 ]
    /\ newKonamiCode
    /\ polled' = FALSE
    /\ UNCHANGED << gamepads, eventQueue, fed, lastSampled, window, recent >>

\* a detector of others: what play() can do for it now, its keydown listener,
\* its setTimeout callback, and a step in which none of its callbacks runs
OutcomesOf(this) ==
    IF Len(this.currentSequence) + 1 >= Len(sequence) /\ ~this.hasPlayedThisSession
       /\ this.audio # "null"
    THEN PlayOutcomes
    ELSE { "resolves" }

Quiet(this) == [ this EXCEPT !.calls = 0, !.play = "none", !.consumed = << >> ]

Heard(this, keyCode, outcome) == consume(Quiet(this), "keyboard", keyCode, outcome)

Cleared(this) == [ Quiet(this) EXCEPT !.hasPlayedThisSession = FALSE, !.timeouts = @ - 1 ]

\* a keydown is dispatched to the listener of every detector built
keydownAll(keyCode) ==
    /\ page.built > 0
    /\ keydown(keyCode)
    /\ \E outcomes \in [ DOMAIN others -> PlayOutcomes ] :
          /\ \A i \in DOMAIN others : outcomes[i] \in OutcomesOf(others[i])
          /\ others' = [ i \in DOMAIN others |-> Heard(others[i], keyCode, outcomes[i]) ]
    /\ UNCHANGED << page, window, recent >>

\* the setTimeout callback of playKonamiAudio, of the first detector
sessionTimeoutFirst ==
    /\ sessionTimeout
    /\ others' = [ i \in DOMAIN others |-> Quiet(others[i]) ]
    /\ UNCHANGED << page, window, recent >>

\* the setTimeout callback of playKonamiAudio, of a detector of others
sessionTimeoutOther(i) ==
    /\ others[i].timeouts > 0
    /\ others' = [ j \in DOMAIN others |->
                     IF j = i THEN Cleared(others[j]) ELSE Quiet(others[j]) ]
    /\ consumed' = << >>
    /\ polled' = FALSE
    /\ UNCHANGED << object, browser, fed, lastSampled, page, window, recent >>

(***************************************************************************)
(* The state after new KonamiCode(): the Audio object was created or not,  *)
(* and the pads connected at that moment.                                  *)
(***************************************************************************)
Constructed(created, pads) ==
    LET this == constructor(created, pads)
    IN  /\ currentSequence = this.currentSequence
        /\ audio = this.audio
        /\ hasPlayedThisSession = this.hasPlayedThisSession
        /\ gamepadIndex = this.gamepadIndex
        /\ previousButtonStates = this.previousButtonStates
        /\ gamepadPolling = this.gamepadPolling
        /\ timeouts = this.timeouts
        /\ intervals = this.intervals
        /\ gamepads = pads
        /\ eventQueue = << >>
        /\ consumed = << >>
        /\ fed = FedNone
        /\ lastSampled = NeverSampled
        /\ polled = FALSE
        /\ window = WindowNone
        /\ recent = RecentNone
        /\ page = [ bootstrap("loading", FALSE) EXCEPT !.fired = TRUE, !.built = 1 ]
        /\ others = << >>

\* a page used with one input device: the keyboard, with every key code, or the
\* standard pad, connected throughout
InitOneDevice == \E created \in BOOLEAN, pads \in { { }, { 0 } } : Constructed(created, pads)

NextOneDevice ==
    \/ \E keyCode \in KeyCodes : gamepads = { } /\ keydown(keyCode) /\ UNCHANGED extras
    \/ intervalTick /\ UNCHANGED extras
    \/ sessionTimeout /\ UNCHANGED extras

SpecOneDevice == InitOneDevice /\ [][NextOneDevice]_vars

\* a page with pads that come and go, and no keyboard
InitController == \E created \in BOOLEAN, pads \in SUBSET Pads : Constructed(created, pads)

NextController ==
    \/ intervalTick /\ UNCHANGED extras
    \/ \E pad \in Pads : plug(pad) /\ UNCHANGED extras
    \/ \E pad \in Pads : unplug(pad) /\ UNCHANGED extras
    \/ dispatch /\ UNCHANGED extras
    \/ sessionTimeout /\ UNCHANGED extras

SpecController == InitController /\ [][NextController]_vars

\* a page used with both devices at once: the keyboard typed in the arrow
\* layout and the standard pad, connected throughout; every press is followed
\* through the suppression window
Init == Constructed(TRUE, { 0 })

Next ==
    \/ \E keyCode \in ArrowKeyCodes :
          /\ keydown(keyCode)
          /\ window' = WindowFold(window, consumed', 1)
          /\ recent' = RecentFold(recent.lengths, << >>, consumed', 1)
          /\ UNCHANGED loader
    \/ /\ intervalTick
       /\ window' = WindowFold(window, consumed', 1)
       /\ recent' = RecentFold(recent.lengths, << >>, consumed', 1)
       /\ UNCHANGED loader
    \/ /\ sessionTimeout
       /\ window' = WindowNone
       /\ recent' = RecentFold(recent.lengths, << >>, consumed', 1)
       /\ UNCHANGED loader

Spec == Init /\ [][Next]_vars

(***************************************************************************)
(* C1                                                                      *)
(***************************************************************************)
Channels == { "keyboard", "controller" }

\* the prefix length a channel's handler reads: both read
\* this.currentSequence.length
PrefixLengthOf(channel) == Len(currentSequence)

\* C1 as stated: keyboard and controller are matched by two independent
\* matchers; a step that handles a press of one channel leaves the prefix
\* length of the other channel as it was.
C1_IndependentMatchers ==
    [][ \A i \in DOMAIN consumed' :
          \A other \in Channels \ { consumed'[i].channel } :
              PrefixLengthOf(other)' = PrefixLengthOf(other) ]_vars

\* the consume rule of one matcher, applied to whatever prefix length it finds
SharedStep(len, e) ==
    IF e.suppressed THEN len
    ELSE IF Hit(e.channel, e.input, len) THEN (len + 1) % Len(TargetPattern)
    ELSE IF Hit(e.channel, e.input, 0) THEN 1
    ELSE 0

RECURSIVE SharedFold(_, _, _)
SharedFold(len, log, i) ==
    IF i > Len(log) THEN len ELSE SharedFold(SharedStep(len, log[i]), log, i + 1)

\* C1 amended: keyboard and controller presses are matched by one shared
\* matcher.  Every press handled with the flag clear, on either channel,
\* advances the one accepted prefix when it is its channel's code for the next
\* position (completing at 10 and emptying it) and otherwise restarts it, at 1
\* for the first symbol and at 0 for any other, whichever channel built the
\* prefix.
C1_SharedMatcher ==
    [][ consumed' # << >> =>
          Len(currentSequence') = SharedFold(Len(currentSequence), consumed', 1) ]_vars

\* a pad press has advanced a prefix whose last symbol came from the keyboard
C1_PadAdvancesKeyboardPrefix ==
    /\ consumed # << >>
    /\ LET e == consumed[Len(consumed)]
       IN  /\ e.channel = "controller"
           /\ ~e.suppressed
           /\ e.before >= 1
           /\ e.after = e.before + 1
           /\ Len(currentSequence) = e.after
           /\ currentSequence[e.before] \in KeyCodes

(***************************************************************************)
(* C2                                                                      *)
(***************************************************************************)
\* C2: from an empty match state with the flag clear, after the first n
\* symbols of the pattern (n in 1..9) have been fed on one channel the accepted
\* prefix has n symbols, and no MATCH and no playback request has occurred.
C2_PrefixFollowsFeed ==
    fed.len \in 1..9 =>
        /\ Len(currentSequence) = fed.len
        /\ fed.matches = 0
        /\ fed.requests = 0

\* nine symbols have just been fed on the pad, from a sample of the poller
C2_NineFedOnPad ==
    /\ fed.len = 9
    /\ fed.channel = "controller"
    /\ polled
    /\ consumed # << >>

(***************************************************************************)
(* C3                                                                      *)
(***************************************************************************)
\* C3: once the 10 symbols of the pattern have been fed from an empty match
\* state with the flag clear, exactly one MATCH has been emitted
\* (playKonamiAudio was entered once, and playback was requested once when the
\* Audio object exists), and the match state is empty.
C3_OneMatchThenEmpty ==
    fed.len = 10 =>
        /\ fed.matches = 1
        /\ currentSequence = << >>
        /\ fed.requests = IF audio = "Audio" THEN 1 ELSE 0

\* the 10th key has just been typed and playback was requested
C3_TenthKeyTyped ==
    /\ fed.len = 10
    /\ fed.channel = "keyboard"
    /\ fed.requests = 1
    /\ consumed # << >>
    /\ consumed[Len(consumed)].before = 9

(***************************************************************************)
(* C4                                                                      *)
(***************************************************************************)
\* C4: when the pattern has been fed twice in direct succession, the first
\* completion started the session timer and the timer did not fire before the
\* second completion, playback has been requested exactly once; the timer's
\* firing afterwards adds no request.
C4_SecondMatchDropped ==
    (fed.len = 20 /\ fed.armed /\ fed.cooledAt \in { -1, 20 }) => fed.requests = 1

\* the pattern has been fed twice and the timer of the first match is pending
C4_FedTwiceWithinCooldown ==
    /\ fed.len = 20
    /\ fed.armed
    /\ fed.cooledAt = -1
    /\ timeouts = 1
    /\ consumed # << >>

(***************************************************************************)
(* C5                                                                      *)
(***************************************************************************)
\* C5: when the pattern has been fed, the session timer has fired before the
\* next symbol, and the pattern has been fed again, playback has been requested
\* twice.
C5_ReplayAfterCooldown ==
    (fed.len = 20 /\ fed.cooledAt = 10) => fed.requests = 2

\* the second pattern has just been completed after the timer fired
C5_FedAgainAfterCooldown ==
    /\ fed.len = 20
    /\ fed.cooledAt = 10
    /\ consumed # << >>
    /\ consumed[Len(consumed)].match = 1

(***************************************************************************)
(* C6                                                                      *)
(***************************************************************************)
\* C6: a press handled with the flag clear that is not a code of the symbol
\* expected at the current prefix length leaves the prefix length at 1 when it
\* is a code of the pattern's first symbol (UP) and at 0 otherwise, and emits
\* no MATCH.
C6_MismatchRestart ==
    \A i \in DOMAIN consumed :
        LET e == consumed[i]
        IN  (~e.suppressed /\ ~Hit(e.channel, e.input, e.before)) =>
                /\ e.after = IF Hit(e.channel, e.input, 0) THEN 1 ELSE 0
                /\ e.match = 0

\* UP, UP, UP: a first symbol met where another was expected restarted at 1
C6_UpWhereDownExpected ==
    \E i \in DOMAIN consumed :
        LET e == consumed[i]
        IN  /\ ~e.suppressed
            /\ e.before = 2
            /\ Hit(e.channel, e.input, 0)
            /\ e.after = 1
            /\ Len(currentSequence) = 1

(***************************************************************************)
(* C7                                                                      *)
(***************************************************************************)
RECURSIVE ArrowsTyped(_)
\* the object after the first n keys of the arrow layout, typed from a fresh
\* object
ArrowsTyped(n) ==
    IF n = 0
    THEN constructor(TRUE, { })
    ELSE handleKeyboardInput(ArrowsTyped(n - 1), sequence[n], "resolves")

\* C7: after n keys (n in 1..10), each the arrow or the WASD code of its
\* position and not all of them arrow codes, typed from an empty match state
\* with the flag clear, the prefix length and the number of MATCH events are
\* those after the first n keys of the all-arrow sequence.
C7_LayoutsInterchangeable ==
    (fed.channel = "keyboard" /\ fed.wasd /\ fed.len \in 1..10) =>
        /\ Len(currentSequence) = Len(ArrowsTyped(fed.len).currentSequence)
        /\ fed.matches = ArrowsTyped(fed.len).calls

\* ten keys mixing both layouts have just completed the pattern
C7_MixedLayoutsCompleted ==
    /\ fed.channel = "keyboard"
    /\ fed.len = 10
    /\ fed.wasd
    /\ fed.arrow
    /\ fed.matches = 1
    /\ consumed # << >>

(***************************************************************************)
(* C8                                                                      *)
(***************************************************************************)
\* the buttons not pressed in the sample before and pressed in the sample now
RisingEdges(before, now) ==
    { b \in Buttons : now[b] = "true" /\ before[b] # "true" }

\* the places of the log at which the poller reported a press
PressEvents(log) == { i \in DOMAIN log : log[i].channel = "controller" }

\* C8: a poll tick reports a press of a button exactly when the button was not
\* pressed in the previous sample and is pressed in this one, and reports it
\* once; a button held over consecutive samples, or released, is not reported.
C8_EdgeTriggered ==
    [][ /\ { consumed'[i].input : i \in PressEvents(consumed') }
            = RisingEdges(lastSampled, lastSampled')
        /\ Cardinality(PressEvents(consumed'))
            = Cardinality(RisingEdges(lastSampled, lastSampled')) ]_vars

\* a sample found a button pressed and reported nothing: the button is held
C8_HeldButtonSampled ==
    /\ polled
    /\ consumed = << >>
    /\ \E b \in Buttons : lastSampled[b] = "true" /\ previousButtonStates[b] = "true"

(***************************************************************************)
(* C9                                                                      *)
(***************************************************************************)
\* C9 as stated: a press handled while the flag is set still updates the match
\* state by the advance and mismatch rules; only the playback is withheld.
C9_MatchStateCyclesWhileSuppressed ==
    \A i \in DOMAIN consumed :
        LET e == consumed[i]
        IN  e.suppressed =>
                /\ e.after = SharedStep(e.before, [ e EXCEPT !.suppressed = FALSE ])
                /\ e.play \notin PlayOutcomes

\* C9 amended: a press handled while the flag is set is ignored entirely: the
\* match state keeps its length, no MATCH is emitted and no playback is
\* requested.
C9_IgnoredWhileSuppressed ==
    \A i \in DOMAIN consumed :
        LET e == consumed[i]
        IN  e.suppressed =>
                /\ e.after = e.before
                /\ e.match = 0
                /\ e.play = "none"

\* a press that is the code of the expected symbol was handled with the flag set
C9_ExpectedSymbolWhileSuppressed ==
    \E i \in DOMAIN consumed :
        LET e == consumed[i]
        IN  /\ e.suppressed
            /\ Hit(e.channel, e.input, e.before)
            /\ hasPlayedThisSession

(***************************************************************************)
(* C10                                                                     *)
(***************************************************************************)
\* C10 as stated: when a match occurs with the flag clear and there is no Audio
\* object, or the playback throws, or its promise rejects, the flag is set and
\* its clear is scheduled as for a successful playback request.
C10_FailureStillSuppresses ==
    \A i \in DOMAIN consumed :
        LET e == consumed[i]
        IN  (e.match = 1 /\ ~e.suppressed /\ e.play \in { "noaudio", "throws", "rejects" }) =>
                /\ hasPlayedThisSession
                /\ timeouts = 1

\* C10 amended: a failed playback is caught and the handler finishes, emptying
\* the match state.  When the promise of play() rejects, the flag is set and
\* its clear is scheduled exactly as for a successful request; when there is no
\* Audio object, or the try block throws, the flag stays clear and no clear is
\* scheduled.
C10_FailureBookkeeping ==
    \A i \in DOMAIN consumed :
        LET e == consumed[i]
        IN  (e.match = 1 /\ ~e.suppressed) =>
                /\ e.after = 0
                /\ e.play \in { "resolves", "rejects", "noaudio", "throws" }
                /\ e.play \in { "resolves", "rejects" } =>
                        (hasPlayedThisSession /\ timeouts = 1)
                /\ e.play \in { "noaudio", "throws" } =>
                        (~hasPlayedThisSession /\ timeouts = 0)

\* a match whose playback threw has left the flag clear and the match state empty
C10_PlaybackThrew ==
    /\ consumed # << >>
    /\ consumed[Len(consumed)].match = 1
    /\ consumed[Len(consumed)].play = "throws"
    /\ ~hasPlayedThisSession
    /\ currentSequence = << >>

(***************************************************************************)
(* C11                                                                     *)
(***************************************************************************)
\* C11: the first discovered pad wins.  While a pad is tracked and still
\* connected, no step makes another pad the tracked one: the tracked index
\* stays, or is given up (-1).
C11_FirstDiscoveredWins ==
    [][ (gamepadIndex # -1 /\ gamepadIndex \in gamepads) =>
            gamepadIndex' \in { gamepadIndex, -1 } ]_vars

(***************************************************************************)
(* C12                                                                     *)
(***************************************************************************)
\* pads are only taken away: no connect event follows a disconnect
NextDisconnect ==
    \/ intervalTick /\ UNCHANGED extras
    \/ \E pad \in Pads : unplug(pad) /\ UNCHANGED extras
    \/ dispatch /\ UNCHANGED extras
    \/ sessionTimeout /\ UNCHANGED extras

\* the browser runs every timer callback that is due and dispatches every
\* queued event
SpecDisconnect ==
    /\ InitController
    /\ [][NextDisconnect]_vars
    /\ WF_vars(intervalTick /\ UNCHANGED extras)
    /\ WF_vars(dispatch /\ UNCHANGED extras)
    /\ WF_vars(sessionTimeout /\ UNCHANGED extras)

\* C12: once every pad is gone and its disconnect event has been dispatched,
\* with no connect event to follow, a state with no tracked pad and no running
\* poll timer is eventually reached, whatever the order of the event and the
\* poll ticks.
C12_PollingHaltsAfterDisconnect ==
    (gamepads = { } /\ eventQueue = << >>) ~> (gamepadIndex = -1 /\ intervals = 0)

(***************************************************************************)
(* C13                                                                     *)
(***************************************************************************)
\* the browser runs the callback of every setTimeout
SpecCooldown ==
    /\ InitOneDevice
    /\ [][NextOneDevice]_vars
    /\ WF_vars(sessionTimeout /\ UNCHANGED extras)

\* C13: the flag is set exactly while one clear timer is pending (flag set:
\* one timer, flag clear: none), whatever is typed or pressed meanwhile, and
\* every time the flag is set it is eventually cleared.
C13_ClearedByItsOneTimer ==
    /\ [](timeouts = IF hasPlayedThisSession THEN 1 ELSE 0)
    /\ (hasPlayedThisSession ~> ~hasPlayedThisSession)

\* a press has just been handled inside the window, the one timer pending
C13_PressInsideWindow ==
    /\ hasPlayedThisSession
    /\ timeouts = 1
    /\ consumed # << >>
    /\ consumed[Len(consumed)].suppressed

(***************************************************************************)
(* C14                                                                     *)
(***************************************************************************)
\* C14: in every state between input events the accepted prefix is shorter
\* than the pattern (length 10 is never seen: the step that reaches it empties
\* the prefix) and its i-th element is the code of the pattern's i-th symbol in
\* one of the three alphabets.
C14_ValidPrefix ==
    /\ Len(currentSequence) < Len(TargetPattern)
    /\ \A i \in DOMAIN currentSequence :
          currentSequence[i] \in { sequence[i], wasdSequence[i], controllerSequence[i] }

\* a prefix of nine symbols, some typed and some pressed on the pad
C14_NineOfBothAlphabets ==
    /\ Len(currentSequence) = 9
    /\ \E i \in DOMAIN currentSequence : currentSequence[i] \in KeyCodes
    /\ \E i \in DOMAIN currentSequence : currentSequence[i] \in Buttons

(***************************************************************************)
(* C15                                                                     *)
(***************************************************************************)
\* C15: once a match on one channel has set the flag, the whole pattern fed on
\* the other channel before the flag is cleared requests no playback: the flag
\* is still set and nothing was requested since it was set.
C15_OtherChannelSuppressed ==
    window.other = Len(TargetPattern) =>
        /\ hasPlayedThisSession
        /\ window.requests = 0

\* the pad has been fed the whole pattern inside a window the keyboard opened
C15_PadCompletesInsideKeyboardWindow ==
    /\ window.by = "keyboard"
    /\ window.other = Len(TargetPattern)
    /\ polled
    /\ consumed # << >>

(***************************************************************************)
(* C16                                                                     *)
(***************************************************************************)
\* C16: a step that hands presses to a handler while the flag is set leaves
\* the match state, the flag and the pending clear timer as they were, and
\* emits no MATCH.
C16_NoOpWhileSuppressed ==
    [][ (hasPlayedThisSession /\ consumed' # << >>) =>
            /\ currentSequence' = currentSequence
            /\ hasPlayedThisSession' = hasPlayedThisSession
            /\ timeouts' = timeouts
            /\ \A i \in DOMAIN consumed' : consumed'[i].match = 0 ]_vars

\* the pad's first symbol has just been pressed with the flag set
C16_PadPressedWhileSuppressed ==
    /\ hasPlayedThisSession
    /\ polled
    /\ consumed # << >>
    /\ consumed[1].channel = "controller"
    /\ consumed[1].input = At(controllerSequence, 0)
    /\ currentSequence = << >>

(***************************************************************************)
(* C17                                                                     *)
(***************************************************************************)
\* C17: once the tracked pad has disconnected and the tracked index is cleared,
\* the recorded levels are cleared as well: no button is still recorded as
\* pressed, so that the first sample after a reconnection is compared against
\* no level of before.
C17_LevelsClearedOnDisconnect ==
    gamepadIndex = -1 =>
        \A b \in DOMAIN previousButtonStates : previousButtonStates[b] # "true"

(***************************************************************************)
(* C18                                                                     *)
(***************************************************************************)
\* C18: after any sequence of startup scan, connect events, disconnect events
\* and poll ticks the detector has at most one poll timer running, and
\* gamepadPolling holds a handle exactly when one is running.
C18_OnePollTimer ==
    /\ intervals <= 1
    /\ (gamepadPolling = "interval") <=> (intervals = 1)

\* pad 1 has connected while pad 0 was there and the poll timer was running
C18_ConnectedWhilePolling ==
    /\ gamepadIndex = 1
    /\ 0 \in gamepads
    /\ eventQueue = << >>
    /\ gamepadPolling = "interval"
    /\ intervals = 1

(***************************************************************************)
(* C19                                                                     *)
(***************************************************************************)
\* the page from the evaluation of the script on, used with the keyboard: no
\* detector exists yet, the fields of the object are undefined
InitBootstrap ==
    /\ \E readyState \in ReadyStates, fired \in BOOLEAN :
          /\ readyState = "loading" => ~fired
          /\ readyState = "complete" => fired
          /\ page = bootstrap(readyState, fired)
    /\ others = << >>
    /\ currentSequence = "undefined"
    /\ audio = "undefined"
    /\ hasPlayedThisSession = "undefined"
    /\ gamepadIndex = "undefined"
    /\ previousButtonStates = "undefined"
    /\ gamepadPolling = "undefined"
    /\ timeouts = 0
    /\ intervals = 0
    /\ gamepads = { }
    /\ eventQueue = << >>
    /\ consumed = << >>
    /\ fed = FedNone
    /\ lastSampled = NeverSampled
    /\ polled = FALSE
    /\ window = WindowNone
    /\ recent = RecentNone

NextBootstrap ==
    \/ DOMContentLoaded
    \/ bootTimeout
    \/ \E keyCode \in ArrowKeyCodes : keydownAll(keyCode)
    \/ sessionTimeoutFirst
    \/ \E i \in DOMAIN others : sessionTimeoutOther(i)

SpecBootstrap == InitBootstrap /\ [][NextBootstrap]_vars

RECURSIVE RequestsIn(_, _)
\* the playback requests recorded in a log, from its i-th entry on
RequestsIn(log, i) ==
    IF i > Len(log) THEN 0 ELSE Requested(log[i]) + RequestsIn(log, i + 1)

RECURSIVE RequestsOfOthers(_)
RequestsOfOthers(i) ==
    IF i > Len(others) THEN 0 ELSE RequestsIn(others[i].consumed, 1) + RequestsOfOthers(i + 1)

\* C19: whatever document.readyState was when the script was evaluated, at
\* most one detector is ever built on the page, and no key press makes the page
\* request playback more than once.
C19_OneDetectorPerPage ==
    /\ page.built <= 1
    /\ RequestsIn(consumed, 1) + RequestsOfOthers(1) <= 1

(***************************************************************************)
(* C20                                                                     *)
(***************************************************************************)
\* C20: over every sequence of key and pad presses, playback is requested only
\* for a press handled with the flag clear that brings the accepted prefix
\* from 9 to the full pattern, and only when the 10 most recent presses not
\* ignored were, in order, codes of the pattern's 10 symbols.
C20_NoFalsePositive ==
    \A i \in DOMAIN consumed :
        Requested(consumed[i]) = 1 =>
            /\ ~consumed[i].suppressed
            /\ consumed[i].before = Len(TargetPattern) - 1
            /\ consumed[i].match = 1
            /\ i \in DOMAIN recent.trail
            /\ Len(TargetPattern) \in recent.trail[i]

\* playback has just been requested for a pattern entered partly on the
\* keyboard and completed on the pad
C20_RequestedAfterBothDevices ==
    /\ consumed # << >>
    /\ Requested(consumed[Len(consumed)]) = 1
    /\ consumed[Len(consumed)].channel = "controller"
    /\ fed.len # Len(TargetPattern)
    /\ Len(TargetPattern) \in recent.lengths

====
